---- MODULE Spec2Model ----
(***************************************************************************)
(* FrameContext of partial-frame-utils (src/src/lib.rs): a baseline frame, *)
(* a counter of partial frames since the last key frame, and push, which   *)
(* returns either the whole frame (KeyFrame) or the dirty blocks of a      *)
(* fixed 16 x 16 grid (PartialFrame).                                      *)
(*                                                                         *)
(* An image is a record [width, height, lit]: the pixel at (x, y) has the  *)
(* value 1 when <<x, y>> is in lit and 0 otherwise.  Pixels are compared   *)
(* with the pixel type's PartialEq only, so two values are enough.         *)
(***************************************************************************)
EXTENDS Integers, Sequences, FiniteSets, TLC

\* lib.rs:56 and lib.rs:57
BLOCK_SIZE == 16
BIT_VALUE == 1

\* Bounds of the model.
MaxLimit == 2
MaxPushes == 3

\* Dimensions (width, height) of the frames the caller constructs and pushes.
Dims == {<<0, 0>>, <<0, 2>>, <<2, 2>>, <<17, 1>>, <<1, 17>>}

Min(a, b) == IF a < b THEN a ELSE b

Coords(w, h) == {<<x, y>> : x \in 0..(w - 1), y \in 0..(h - 1)}

\* The images of one size: all dark, or exactly one lit pixel.
Images(w, h) ==
  {[width |-> w, height |-> h, lit |-> L] :
     L \in {{}} \cup {{p} : p \in Coords(w, h)}}

Frames == UNION {Images(d[1], d[2]) : d \in Dims}

NoImage == [width |-> 0, height |-> 0, lit |-> {}]

VARIABLES
  current, limits, timestamp, frame, width, height,  \* the fields of FrameContext
  result,          \* what the last push returned (kind "None" after new)
  arg_timestamp,   \* the arguments of the last push
  arg_frame,
  old_current,     \* self.current and self.frame when the last push was entered
  old_frame,
  pushes,          \* number of push calls so far
  partials,        \* pushes that returned PartialFrame since new or the last KeyFrame
  receiver,        \* the frame of a receiver that applies every result it is sent
  arg_len, cells,  \* an argument of round_to_size and its value (-1: not computed)
  overflow_checks  \* the build: TRUE when integer overflow panics (debug)

vars == <<current, limits, timestamp, frame, width, height, result,
          arg_timestamp, arg_frame, old_current, old_frame, pushes,
          partials, receiver, arg_len, cells, overflow_checks>>

----------------------------------------------------------------------------
\* u16 arithmetic

\* bit i of v
Bit(v, i) == (v \div (2 ^ i)) % 2

\* 2 ^ 16: the u16 values are 0..(Word - 1)
Word == 2 ^ BLOCK_SIZE

\* v << s for a u16 v and 0 <= s < 16
Shl(v, s) == (v * 2 ^ s) % Word

RECURSIVE BitOrFrom(_, _, _)
BitOrFrom(a, b, i) ==
  IF i = BLOCK_SIZE THEN 0
  ELSE (IF Bit(a, i) = 1 \/ Bit(b, i) = 1 THEN 2 ^ i ELSE 0) + BitOrFrom(a, b, i + 1)

\* a | b
BitOr(a, b) == BitOrFrom(a, b, 0)

RECURSIVE ReverseFrom(_, _)
ReverseFrom(v, i) ==
  IF i = BLOCK_SIZE THEN 0
  ELSE Bit(v, i) * 2 ^ ((BLOCK_SIZE - 1) - i) + ReverseFrom(v, i + 1)

\* the word as it is, not reversed
reverse_bits_identity(v) == v

\* u16::reverse_bits
reverse_bits(v) == IF v = 0 THEN 0 ELSE ReverseFrom(v, 0)

\* len / N, rounded down
round_to_size_floor(N, len) == len \div N

\* ((len + (N - 1)) & !(N - 1)) / N; N is a power of two, so clearing the
\* bits of N - 1 subtracts the remainder modulo N.
round_to_size(N, len) ==
  LET s == len + (N - 1) IN (s - (s % N)) \div N

----------------------------------------------------------------------------
\* image and imageproc operations used by push

get_pixel(img, x, y) == IF <<x, y>> \in img.lit THEN 1 ELSE 0

\* the i-th pixel position of GenericImageView::pixels (row-major)
PixelAt(img, i) == <<i % img.width, i \div img.width>>

\* pixel_diffs with a closure that holds of every pair of pixels
pixel_diffs_always(actual, expected) ==
  LET n == Min(actual.width * actual.height, expected.width * expected.height)
  IN  [panic |-> \E i \in 0..(n - 1) : <<i % actual.width, i \div actual.width>>
                                         # <<i % expected.width, i \div expected.width>>,
       diffs |-> {<<i % actual.width, i \div actual.width>> : i \in 0..(n - 1)}]

\* imageproc::utils::is_empty
is_empty(img) == img.width = 0 \/ img.height = 0

\* imageproc::utils::pixel_diffs(&actual, &expected, |p, q| p != q): no diffs
\* when either image is empty; otherwise the two pixel iterators are zipped
\* (the shorter one ends the walk); p and q are (x, y, pixel) triples, so a
\* pair at different positions passes the filter and then fails the
\* assertion "Pixel locations do not match".
pixel_diffs(actual, expected) ==
  LET n == Min(actual.width * actual.height, expected.width * expected.height)
      I == 0..(n - 1)
  IN  IF is_empty(actual) \/ is_empty(expected)
      THEN [panic |-> FALSE, diffs |-> {}]
      ELSE
      IF \E i \in I : PixelAt(actual, i) # PixelAt(expected, i)
      THEN [panic |-> TRUE, diffs |-> {}]
      ELSE [panic |-> FALSE,
            diffs |-> {PixelAt(actual, i) : i \in
                         {j \in I :
                            get_pixel(actual, PixelAt(actual, j)[1], PixelAt(actual, j)[2])
                              # get_pixel(expected, PixelAt(expected, j)[1], PixelAt(expected, j)[2])}}]

\* a crop that is not clipped to the image
crop_imm_unclipped(img, x, y, w, h) ==
  [width |-> w, height |-> h,
   lit |-> {<<p[1] - x, p[2] - y>> : p \in
              {q \in img.lit : /\ q[1] >= x /\ q[1] < x + w
                               /\ q[2] >= y /\ q[2] < y + h}}]

\* a crop of the clipped size taken at the image's origin, not at (x, y)
crop_imm_at_origin(img, x, y, w, h) ==
  LET cx == Min(x, img.width)
      cy == Min(y, img.height)
      ch == Min(h, img.height - cy)
      cw == Min(w, img.width - cx)
  IN  [width |-> cw, height |-> ch,
       lit |-> {q \in img.lit : q[1] < cw /\ q[2] < ch}]

\* image::imageops::crop_imm(&img, x, y, w, h).to_image(): the rectangle is
\* clipped to the image, then copied.
crop_imm(img, x, y, w, h) ==
  LET cx == Min(x, img.width)
      cy == Min(y, img.height)
      ch == Min(h, img.height - cy)
      cw == Min(w, img.width - cx)
  IN  [width |-> cw, height |-> ch,
       lit |-> {<<p[1] - cx, p[2] - cy>> : p \in
                  {q \in img.lit : /\ q[1] >= cx /\ q[1] < cx + cw
                                   /\ q[2] >= cy /\ q[2] < cy + ch}}]

----------------------------------------------------------------------------
\* FrameContext::push, the partial branch

\* lib.rs:71-72 for one diff: the division by x_base or y_base (zero when the
\* cached dimension is zero), the subtraction (BLOCK_SIZE - 1) - column in
\* usize (panics in a build with overflow checks) and the index into the
\* 16-entry bit_map.
mark_panics(d, x_base, y_base) ==
  \/ x_base = 0
  \/ /\ overflow_checks
     /\ d[1] \div x_base > BLOCK_SIZE - 1
  \/ y_base = 0
  \/ d[2] \div y_base >= BLOCK_SIZE

\* the shift amount without the subtraction from BLOCK_SIZE - 1
mark_shift_plain(column) == column % BLOCK_SIZE

\* The shift amount of BIT_VALUE << ((BLOCK_SIZE - 1) - column).  Without
\* overflow checks the subtraction wraps modulo the width of usize and the
\* shift of a u16 takes its amount modulo 16; the width of usize is a
\* multiple of 16, so the amount is the difference modulo 16.
mark_shift(column) == ((BLOCK_SIZE - 1) - column) % BLOCK_SIZE

\* for diff in &res { bit_map[diff.y / y_base] |= bit }
RECURSIVE mark(_, _, _, _)
mark(bit_map, diffs, x_base, y_base) ==
  IF diffs = {} THEN bit_map
  ELSE LET d == CHOOSE e \in diffs : TRUE
           bit == Shl(BIT_VALUE, mark_shift(d[1] \div x_base))
       IN  mark([bit_map EXCEPT ![d[2] \div y_base] = BitOr(@, bit)],
                diffs \ {d}, x_base, y_base)

\* the tile as a whole block, not clipped to the frame
tile_unclipped(img, y_idx, x_idx, x_base, y_base) ==
  [x |-> x_idx * x_base, y |-> y_idx * y_base,
   image |-> crop_imm_unclipped(img, x_idx * x_base, y_idx * y_base, x_base, y_base)]

\* lib.rs:91-101: the tile of block (y_idx, x_idx)
tile(img, y_idx, x_idx, x_base, y_base) ==
  [x |-> x_idx * x_base, y |-> y_idx * y_base,
   image |-> crop_imm(img, x_idx * x_base, y_idx * y_base, x_base, y_base)]

\* the columns from right to left
Columns_reversed == [k \in 1..BLOCK_SIZE |-> BLOCK_SIZE - k]

\* the values of x_idx in the order of the loop of lib.rs:85
Columns == [k \in 1..BLOCK_SIZE |-> k - 1]

\* the test of lib.rs:87 alone: every block of a row with a dirty block
dirty_row(bits, x_idx) == bits # 0

\* lib.rs:86-90: the test of block x_idx of a row whose reversed word is bits
dirty(bits, x_idx) ==
  /\ bits # 0
  /\ Bit(bits, x_idx) # 0

\* lib.rs:85-103: the tiles of row y_idx, left to right
scan_row(bit_map, img, y_idx, x_base, y_base) ==
  LET bits == reverse_bits(bit_map[y_idx])
      sel == IF bits = 0 THEN <<>>
             ELSE SelectSeq(Columns, LAMBDA x_idx : dirty(bits, x_idx))
  IN  [i \in 1..Len(sel) |-> tile(img, y_idx, sel[i], x_base, y_base)]

\* lib.rs:84-104: the rows from y_idx on, top to bottom
RECURSIVE scan(_, _, _, _, _)
scan(bit_map, img, y_idx, x_base, y_base) ==
  IF y_idx = BLOCK_SIZE THEN <<>>
  ELSE scan_row(bit_map, img, y_idx, x_base, y_base)
         \o scan(bit_map, img, y_idx + 1, x_base, y_base)

\* the partial branch with the divisions by x_base and y_base done before the
\* loop over the diffs
partial_divides_first(img, base, w, h) ==
  LET res == pixel_diffs(img, base)
      y_base == round_to_size(BLOCK_SIZE, h)
      x_base == round_to_size(BLOCK_SIZE, w)
  IN  IF \/ res.panic \/ x_base = 0 \/ y_base = 0
         \/ \E d \in res.diffs : mark_panics(d, x_base, y_base)
      THEN [kind |-> "Panic", image |-> NoImage, tiles |-> <<>>]
      ELSE [kind |-> "PartialFrame", image |-> NoImage,
            tiles |-> scan(mark([r \in 0..(BLOCK_SIZE - 1) |-> 0], res.diffs, x_base, y_base),
                           img, 0, x_base, y_base)]

\* lib.rs:66-104: the outcome of the partial branch for the pushed image,
\* the stored baseline and the cached dimensions
partial(img, base, w, h) ==
  LET res == pixel_diffs(img, base)
      y_base == round_to_size(BLOCK_SIZE, h)
      x_base == round_to_size(BLOCK_SIZE, w)
  IN  IF res.panic \/ \E d \in res.diffs : mark_panics(d, x_base, y_base)
      THEN [kind |-> "Panic", image |-> NoImage, tiles |-> <<>>]
      ELSE [kind |-> "PartialFrame", image |-> NoImage,
            tiles |-> scan(mark([r \in 0..(BLOCK_SIZE - 1) |-> 0], res.diffs, x_base, y_base),
                           img, 0, x_base, y_base)]

----------------------------------------------------------------------------
\* FrameContext::new
New(ts, lim, img) ==
  /\ current = 0
  /\ limits = lim
  /\ timestamp = ts
  /\ width = img.width
  /\ height = img.height
  /\ frame = img
  /\ result = [kind |-> "None", image |-> NoImage, tiles |-> <<>>]
  /\ arg_timestamp = ts
  /\ arg_frame = img
  /\ old_current = 0
  /\ old_frame = img
  /\ pushes = 0
  /\ partials = 0
  /\ receiver = img
  /\ cells = -1

Init ==
  /\ overflow_checks \in BOOLEAN
  /\ arg_len = 0
  /\ \E lim \in 0..MaxLimit, img \in Frames : New(0, lim, img)

\* the test of lib.rs:53 with <= for <, and with the limit taken one too low
is_partial_le(cur, lim) == cur <= lim
is_partial_early(cur, lim) == cur + 1 < lim

\* lib.rs:53: the test that selects the partial branch
is_partial(cur, lim) == cur < lim

\* what every push records about its call; a context whose push panicked is
\* not used again
Called(ts, img) ==
  /\ result.kind # "Panic"
  /\ pushes' = pushes + 1
  /\ arg_timestamp' = ts
  /\ arg_frame' = img
  /\ old_current' = current
  /\ old_frame' = frame
  /\ UNCHANGED <<limits, width, height, overflow_checks>>

\* the partial branch without the assignments of lib.rs:105-106
PushPartial_keeps_baseline(ts, img) ==
  /\ is_partial(current, limits)
  /\ Called(ts, img)
  /\ current' = current + 1
  /\ result' = partial(img, frame, width, height)
  /\ UNCHANGED <<timestamp, frame>>
  /\ partials' = IF result'.kind = "Panic" THEN partials ELSE partials + 1

\* push, lib.rs:53-107; a panic leaves the counter incremented and the
\* baseline as it was.
PushPartial(ts, img) ==
  /\ is_partial(current, limits)
  /\ Called(ts, img)
  /\ current' = current + 1
  /\ result' = partial(img, frame, width, height)
  /\ IF result'.kind = "Panic"
     THEN UNCHANGED <<timestamp, frame, partials>>
     ELSE /\ timestamp' = ts
          /\ frame' = img
          /\ partials' = partials + 1

\* the key frame branch without the reset of lib.rs:109
PushKeyFrame_no_reset(ts, img) ==
  /\ ~is_partial(current, limits)
  /\ Called(ts, img)
  /\ current' = current
  /\ timestamp' = ts
  /\ frame' = img
  /\ result' = [kind |-> "KeyFrame", image |-> img, tiles |-> <<>>]
  /\ partials' = 0

\* the key frame branch returning the frame it replaces
PushKeyFrame_old_frame(ts, img) ==
  /\ ~is_partial(current, limits)
  /\ Called(ts, img)
  /\ current' = 0
  /\ timestamp' = ts
  /\ frame' = img
  /\ result' = [kind |-> "KeyFrame", image |-> frame, tiles |-> <<>>]
  /\ partials' = 0

\* push, lib.rs:108-113
PushKeyFrame(ts, img) ==
  /\ ~is_partial(current, limits)
  /\ Called(ts, img)
  /\ current' = 0
  /\ timestamp' = ts
  /\ frame' = img
  /\ result' = [kind |-> "KeyFrame", image |-> img, tiles |-> <<>>]
  /\ partials' = 0

\* A receiver's frame after one tile: the tile's pixels replace those of the
\* rectangle at the tile's origin.
Overwrite(rcv, t) ==
  LET inside(p) == /\ p[1] >= t.x /\ p[1] < t.x + t.image.width
                   /\ p[2] >= t.y /\ p[2] < t.y + t.image.height
  IN  [rcv EXCEPT !.lit =
         {p \in @ : ~inside(p)}
           \cup {p \in {<<t.x + q[1], t.y + q[2]>> : q \in t.image.lit} :
                   p[1] < rcv.width /\ p[2] < rcv.height}]

RECURSIVE OverwriteAll(_, _, _)
OverwriteAll(rcv, tiles, i) ==
  IF i > Len(tiles) THEN rcv
  ELSE OverwriteAll(Overwrite(rcv, tiles[i]), tiles, i + 1)

\* A receiver's frame after a result: a KeyFrame replaces it, the tiles of a
\* PartialFrame are written over it in their order; a push that panics sends
\* nothing.
Receive(rcv, res) ==
  CASE res.kind = "KeyFrame" -> res.image
    [] res.kind = "PartialFrame" -> OverwriteAll(rcv, res.tiles, 1)
    [] OTHER -> rcv

Push(ts, img) ==
  /\ PushPartial(ts, img) \/ PushKeyFrame(ts, img)
  /\ receiver' = Receive(receiver, result')
  /\ UNCHANGED <<arg_len, cells>>

\* The caller stamps each frame with the number of its call (new has stamp 0).
Next ==
  /\ pushes < MaxPushes
  /\ \E img \in Frames : Push(pushes + 1, img)

Spec == Init /\ [][Next]_vars

----------------------------------------------------------------------------
\* A caller that pushes only frames of the size the context was made with.
NextSame ==
  /\ pushes < MaxPushes
  /\ \E img \in Images(width, height) : Push(pushes + 1, img)

SpecSame == Init /\ [][NextSame]_vars

----------------------------------------------------------------------------
\* round_to_size::<BLOCK_SIZE> alone, applied to the lengths 0..MaxLen
MaxLen == 100

InitRound ==
  /\ overflow_checks = FALSE
  /\ New(0, 0, NoImage)
  /\ arg_len \in 0..MaxLen

Round ==
  /\ cells = -1
  /\ cells' = round_to_size(BLOCK_SIZE, arg_len)
  /\ UNCHANGED <<current, limits, timestamp, frame, width, height, result,
                 arg_timestamp, arg_frame, old_current, old_frame, pushes,
                 partials, receiver, arg_len, overflow_checks>>

SpecRound == InitRound /\ [][Round]_vars

----------------------------------------------------------------------------
\* The caller of tests::it_works (lib.rs:122-153): a context made with limit
\* 10 from an all-dark image, and pushes of images of that size with dots.

TestLimit == 10
MaxTestPushes == 11

TestDims == {<<16, 16>>, <<20, 20>>}

\* Six dots; in a 20 x 20 image, whose blocks are 2 x 2 pixels, the last two
\* lie in one block.
Dots == {<<1, 1>>, <<14, 1>>, <<8, 8>>, <<1, 14>>, <<14, 14>>, <<15, 15>>}

\* all dark, or five or six of the dots
TestImages(w, h) ==
  {[width |-> w, height |-> h, lit |-> L] :
     L \in {D \in SUBSET Dots : Cardinality(D) \in {0, 5, 6}}}

InitTest ==
  /\ overflow_checks \in BOOLEAN
  /\ arg_len = 0
  /\ \E d \in TestDims : New(0, TestLimit, [width |-> d[1], height |-> d[2], lit |-> {}])

NextTest ==
  /\ pushes < MaxTestPushes
  /\ \E img \in TestImages(width, height) : Push(pushes + 1, img)

SpecTest == InitTest /\ [][NextTest]_vars

----------------------------------------------------------------------------
\* Properties

Returned == result.kind \in {"KeyFrame", "PartialFrame"}

\* C1: in every state reachable from new by push calls, 0 <= current <= limits,
\* for every limit including 0.
C1_CounterInRange == 0 <= current /\ current <= limits

C1_Witness == pushes > 1 /\ result.kind = "PartialFrame" /\ current = limits

\* C2: once exactly limits pushes in a row have returned PartialFrame since
\* new or the last KeyFrame, the next push returns KeyFrame and leaves
\* current = 0, whatever frame is pushed.
C2_ForcedKeyFrame ==
  [][partials = limits => (result'.kind = "KeyFrame" /\ current' = 0)]_vars

\* a forced key frame for a frame equal to the baseline, after two partial frames
C2_Witness ==
  /\ result.kind = "KeyFrame"
  /\ limits > 1
  /\ old_current = limits
  /\ arg_frame = old_frame
  /\ arg_frame.lit # {}
  /\ current = 0

\* C3: a push that returns PartialFrame leaves current one higher, a push that
\* returns KeyFrame leaves it 0, and after a push current = 0 exactly when
\* the push returned KeyFrame.
C3_CounterStep ==
  /\ result.kind = "PartialFrame" => current = old_current + 1
  /\ result.kind = "KeyFrame" => current = 0
  /\ pushes > 0 => (current = 0 <=> result.kind = "KeyFrame")

C3_Witness == result.kind = "PartialFrame" /\ old_current = 1 /\ current = 2

C5_IdenticalFrame ==
  (pushes > 0 /\ old_current < limits /\ arg_frame = old_frame) =>
    /\ result.kind = "PartialFrame"
    /\ result.tiles = <<>>
    /\ current = old_current + 1

C5_Witness ==
  /\ pushes > 0
  /\ old_current < limits
  /\ arg_frame = old_frame
  /\ arg_frame.lit # {}
  /\ result.kind = "PartialFrame"
  /\ result.tiles = <<>>

\* ceil(a / b), not by way of round_to_size
CeilDiv(a, b) == (a + (b - 1)) \div b

\* the pixels at which two images of one size differ
Differing(a, b) ==
  {p \in Coords(a.width, a.height) : get_pixel(a, p[1], p[2]) # get_pixel(b, p[1], p[2])}

SameSize(a, b) == a.width = b.width /\ a.height = b.height

Tiles == {result.tiles[i] : i \in 1..Len(result.tiles)}

\* C6: for a push that returns PartialFrame for a frame of the baseline's
\* size, block (row, col) of the grid with cells of ceil(width / 16) by
\* ceil(height / 16) pixels is a tile, with origin (col * cellW, row * cellH),
\* exactly when some pixel of the block differs between the previous
\* baseline and the pushed frame.
C6_Completeness ==
  (result.kind = "PartialFrame" /\ SameSize(arg_frame, old_frame)) =>
    LET cellW == CeilDiv(arg_frame.width, BLOCK_SIZE)
        cellH == CeilDiv(arg_frame.height, BLOCK_SIZE)
    IN  \A row \in 0..(BLOCK_SIZE - 1), col \in 0..(BLOCK_SIZE - 1) :
          (\E t \in Tiles : t.x = col * cellW /\ t.y = row * cellH)
            <=> (\E p \in Differing(arg_frame, old_frame) :
                   p[1] \div cellW = col /\ p[2] \div cellH = row)

\* C7: every tile of a PartialFrame has its origin inside the pushed frame and
\* an image no larger than what lies between the origin and the frame's
\* right and bottom edges.
C7_Containment ==
  result.kind = "PartialFrame" =>
    \A t \in Tiles :
      /\ 0 <= t.x /\ t.x < arg_frame.width
      /\ 0 <= t.y /\ t.y < arg_frame.height
      /\ t.image.width <= arg_frame.width - t.x
      /\ t.image.height <= arg_frame.height - t.y

\* a tile at the right edge of a 17-pixel row: one pixel wide, not two
C7_Witness ==
  /\ result.kind = "PartialFrame"
  /\ arg_frame.width = width
  /\ \E t \in Tiles :
       /\ t.image.width < round_to_size(BLOCK_SIZE, width)
       /\ t.x + t.image.width = arg_frame.width
       /\ t.image.width > 0

\* C8: the tiles of a PartialFrame are in row-major order of the grid: each
\* tile's (y, x) is strictly below the next tile's, lexicographically.
C8_TileOrder ==
  result.kind = "PartialFrame" =>
    \A i \in 1..(Len(result.tiles) - 1) :
      LET a == result.tiles[i]
          b == result.tiles[i + 1]
      IN  a.y < b.y \/ (a.y = b.y /\ a.x < b.x)

\* two tiles of one row
C8_Witness ==
  /\ result.kind = "PartialFrame"
  /\ Len(result.tiles) = 2
  /\ result.tiles[1].y = result.tiles[2].y
  /\ result.tiles[1].x < result.tiles[2].x

\* C10: every push that returns leaves the pushed frame and timestamp as the
\* stored baseline and timestamp; so a partial push is compared with the
\* frame pushed just before it: for frames of one size it has no tiles
\* exactly when the two are equal.
C10_BaselineReplaced ==
  Returned =>
    /\ frame = arg_frame
    /\ timestamp = arg_timestamp
    /\ (result.kind = "PartialFrame" /\ SameSize(arg_frame, old_frame)) =>
         (result.tiles = <<>> <=> arg_frame = old_frame)

\* a second partial push in a row with tiles: its baseline was itself pushed
\* by a partial push
C10_Witness ==
  /\ result.kind = "PartialFrame"
  /\ old_current > 0
  /\ result.tiles # <<>>
  /\ frame = arg_frame
  /\ frame # old_frame

\* the blocks (row, col) of the grid of a frame's size that hold a pixel at
\* which the frame differs from the previous baseline
DirtyBlocks ==
  LET cellW == CeilDiv(arg_frame.width, BLOCK_SIZE)
      cellH == CeilDiv(arg_frame.height, BLOCK_SIZE)
  IN  {<<p[2] \div cellH, p[1] \div cellW>> : p \in Differing(arg_frame, old_frame)}

\* C9: a PartialFrame has as many tiles as there are blocks with a differing
\* pixel, one per block; the first push into a fresh context with limit 10
\* returns PartialFrame, with 5 tiles when the frame differs from the
\* baseline at five pixels of five blocks.
C9_TileCount ==
  /\ pushes = 1 => result.kind = "PartialFrame"
  /\ result.kind = "PartialFrame" =>
       /\ Len(result.tiles) = Cardinality(DirtyBlocks)
       /\ {<<t.y, t.x>> : t \in Tiles}
            = {<<b[1] * CeilDiv(arg_frame.height, BLOCK_SIZE),
                 b[2] * CeilDiv(arg_frame.width, BLOCK_SIZE)>> : b \in DirtyBlocks}
  /\ (pushes = 1 /\ Cardinality(Differing(arg_frame, old_frame)) = 5
        /\ Cardinality(DirtyBlocks) = 5) => Len(result.tiles) = 5

\* the first push, limit 10: five differing pixels in five blocks, five tiles
C9_Witness ==
  /\ pushes = 1
  /\ limits = TestLimit
  /\ result.kind = "PartialFrame"
  /\ Cardinality(Differing(arg_frame, old_frame)) = 5
  /\ Cardinality(DirtyBlocks) = 5
  /\ Len(result.tiles) = 5

\* C11: a push that returns KeyFrame returns the pushed frame itself, same
\* size and same pixels, and no tiles, also when the frame differs from the
\* baseline in content or in size.
C11_KeyFrameIsInput ==
  result.kind = "KeyFrame" =>
    /\ result.image = arg_frame
    /\ result.image.width = arg_frame.width
    /\ result.image.height = arg_frame.height
    /\ result.tiles = <<>>

\* a key frame of another size than the baseline it replaces
C11_Witness ==
  /\ result.kind = "KeyFrame"
  /\ ~SameSize(arg_frame, old_frame)
  /\ arg_frame.lit # {}
  /\ old_frame.lit # {}
  /\ result.image = arg_frame

\* C12: with limits = 0 every push returns KeyFrame and current stays 0; no
\* push returns PartialFrame.
C12_LimitZero ==
  limits = 0 =>
    /\ current = 0
    /\ pushes > 0 => result.kind = "KeyFrame"

C12_Witness == limits = 0 /\ pushes > 1 /\ result.kind = "KeyFrame" /\ current = 0

\* C13: a push of a frame whose width or height differs from the stored
\* baseline's returns a DimensionMismatch error, in the partial branch and in
\* the key frame branch.
C13_DimensionMismatch ==
  (pushes > 0 /\ ~SameSize(arg_frame, old_frame)) =>
    result.kind = "DimensionMismatch"

\* C14: every tile of a PartialFrame holds the pixels of the pushed frame at
\* the tile's place: tile[i, j] = new_frame[x + i, y + j]; and a tile that
\* ends before the frame's right (bottom) edge is exactly one cell wide
\* (high), the cell being that of the context's width and height.
C14_TileContent ==
  result.kind = "PartialFrame" =>
    \A t \in Tiles :
      /\ \A i \in 0..(t.image.width - 1), j \in 0..(t.image.height - 1) :
           get_pixel(t.image, i, j) = get_pixel(arg_frame, t.x + i, t.y + j)
      /\ t.image.lit \subseteq Coords(t.image.width, t.image.height)
      /\ t.x + t.image.width < arg_frame.width
           => t.image.width = CeilDiv(width, BLOCK_SIZE)
      /\ t.y + t.image.height < arg_frame.height
           => t.image.height = CeilDiv(height, BLOCK_SIZE)

\* a tile two pixels wide, away from the right edge, whose second pixel is lit
\* in the pushed frame and dark in the old baseline
C14_Witness ==
  /\ result.kind = "PartialFrame"
  /\ old_frame.lit = {}
  /\ \E t \in Tiles :
       /\ t.x > 0
       /\ t.image.width = 2
       /\ t.x + t.image.width < arg_frame.width
       /\ t.image.lit = {<<1, 0>>}

\* C15: after new and after any pushes, of frames of any size, the cached
\* width and height are those of the stored baseline.
C15_CachedDimensions == width = frame.width /\ height = frame.height

\* C16: when the baseline and the pushed frame both have zero width or zero
\* height, push completes without a fault (no division by a zero cell size)
\* and returns PartialFrame with no tiles when current < limits held, and
\* KeyFrame otherwise.
C16_DegenerateImages ==
  (pushes > 0 /\ is_empty(old_frame) /\ is_empty(arg_frame)) =>
    /\ result.kind # "Panic"
    /\ old_current < limits => (result.kind = "PartialFrame" /\ result.tiles = <<>>)
    /\ ~(old_current < limits) => result.kind = "KeyFrame"

\* a partial push of a 0 x 2 frame into a context made with a 0 x 2 frame,
\* whose cell width is 0
C16_Witness ==
  /\ pushes > 0
  /\ width = 0 /\ height > 0
  /\ SameSize(frame, old_frame)
  /\ frame.width = width /\ frame.height = height
  /\ round_to_size(BLOCK_SIZE, width) = 0
  /\ old_current < limits
  /\ result.kind = "PartialFrame"

\* C17: a receiver that starts from the initial frame, replaces its frame on
\* a KeyFrame and writes each tile of a PartialFrame at the tile's origin
\* holds the context's baseline after every push, when all frames have one
\* size, for every limit.
C17_ReceiverInSync == receiver = frame /\ result.kind # "Panic"

\* after a second partial push in a row, of two tiles, the second one clipped
C17_Witness ==
  /\ result.kind = "PartialFrame"
  /\ old_current > 0
  /\ Len(result.tiles) = 2
  /\ result.tiles[2].image.width < round_to_size(BLOCK_SIZE, width)
  /\ receiver = frame
  /\ receiver # old_frame

\* C18: for a push of a frame of the baseline's size, at least 1 x 1, every
\* differing pixel has a column x div x_base and a row y div y_base in 0..15,
\* so the subtraction 15 - column does not underflow, bit_map is not indexed
\* out of range, and the PartialFrame has at most 256 tiles.
C18_BlockIndexBounds ==
  (/\ pushes > 0 /\ old_current < limits
   /\ SameSize(arg_frame, old_frame)
   /\ arg_frame.width >= 1 /\ arg_frame.height >= 1) =>
    LET x_base == round_to_size(BLOCK_SIZE, width)
        y_base == round_to_size(BLOCK_SIZE, height)
    IN  /\ \A p \in Differing(arg_frame, old_frame) :
             /\ x_base > 0 /\ y_base > 0
             /\ p[1] \div x_base \in 0..(BLOCK_SIZE - 1)
             /\ p[2] \div y_base \in 0..(BLOCK_SIZE - 1)
        /\ result.kind = "PartialFrame"
        /\ Len(result.tiles) <= BLOCK_SIZE * BLOCK_SIZE

\* the cells (row, col) of a 16 x 16 grid, row by row, left to right
GridCells ==
  [k \in 1..(BLOCK_SIZE * BLOCK_SIZE) |->
     <<(k - 1) \div BLOCK_SIZE, (k - 1) % BLOCK_SIZE>>]

\* the origins (y, x) of the marked cells of a boolean grid, in that order
PlainScan(marked, cellH, cellW) ==
  LET sel == SelectSeq(GridCells, LAMBDA c : c \in marked)
  IN  [i \in 1..Len(sel) |-> <<sel[i][1] * cellH, sel[i][2] * cellW>>]

\* C19: the bit-packed mask behaves as a boolean grid [row][col]: marking
\* column c sets bit 15 - c of the row's word, bit x_idx of the reversed word
\* is set exactly for the marked columns, and the tiles are those of a
\* row-major, left-to-right scan of the grid, in the same order.
C19_MaskIsGrid ==
  /\ \A c \in 0..(BLOCK_SIZE - 1) :
       /\ Shl(BIT_VALUE, mark_shift(c)) = 2 ^ ((BLOCK_SIZE - 1) - c)
       /\ \A x_idx \in 0..(BLOCK_SIZE - 1) :
            dirty(reverse_bits(Shl(BIT_VALUE, mark_shift(c))), x_idx) <=> x_idx = c
  /\ result.kind = "PartialFrame" =>
       [i \in 1..Len(result.tiles) |-> <<result.tiles[i].y, result.tiles[i].x>>]
         = PlainScan(DirtyBlocks, CeilDiv(height, BLOCK_SIZE), CeilDiv(width, BLOCK_SIZE))

\* tiles of several rows, two of them in one row
C19_Witness ==
  /\ result.kind = "PartialFrame"
  /\ Len(result.tiles) >= 4
  /\ \E i \in 1..(Len(result.tiles) - 1) :
       /\ result.tiles[i].y = result.tiles[i + 1].y
       /\ result.tiles[i].x < result.tiles[i + 1].x
  /\ \E i \in 1..(Len(result.tiles) - 1) :
       /\ result.tiles[i].y < result.tiles[i + 1].y
       /\ result.tiles[i].x > result.tiles[i + 1].x

\* C20: round_to_size::<16>(len) is ceil(len / 16) for every len >= 0 for
\* which len + 15 does not overflow, and 0 for len = 0.
C20_RoundIsCeil ==
  cells # -1 =>
    /\ cells = CeilDiv(arg_len, BLOCK_SIZE)
    /\ cells * BLOCK_SIZE >= arg_len
    /\ (cells - 1) * BLOCK_SIZE < arg_len \/ arg_len = 0
    /\ arg_len = 0 => cells = 0

\* a length that is not a multiple of 16 and is rounded up
C20_Witness == cells # -1 /\ arg_len % BLOCK_SIZE = 1 /\ arg_len > BLOCK_SIZE /\ cells * BLOCK_SIZE > arg_len

====
